---- MODULE Spec2Model ----
(***************************************************************************)
(* Model of pascal71/tplink-go: the SSH session engine of package client   *)
(* (Client.Connect / RunCommand / Close / waitForPrompt), the prompt       *)
(* matcher (promptRegex, ansiEscape) and the stand-alone script that       *)
(* drives the same read loop with an enable-password interjection.         *)
(*                                                                         *)
(* Bytes are one-character strings; buffers are sequences of bytes.        *)
(***************************************************************************)
EXTENDS Integers, Sequences, FiniteSets, TLC

----------------------------------------------------------------------------
(* Bounds of the model.                                                    *)

\* API calls the host makes on one Client object.
MaxCalls == 3
\* Segments the remote device puts on the wire in one behaviour.
MaxDeliver == 2

----------------------------------------------------------------------------
(* Bytes and byte classes used by the two regular expressions.             *)

ESC == "ESC"
CR == "\r"
LF == "\n"

Digits == {"0", "1", "2", "3", "4", "5", "6", "7", "8", "9"}

Letters ==
    {"a", "b", "c", "d", "e", "f", "g", "h", "i", "j", "k", "l", "m",
     "n", "o", "p", "q", "r", "s", "t", "u", "v", "w", "x", "y", "z",
     "A", "B", "C", "D", "E", "F", "G", "H", "I", "J", "K", "L", "M",
     "N", "O", "P", "Q", "R", "S", "T", "U", "V", "W", "X", "Y", "Z"}

\* [0-9;]
EscParams == Digits \cup {";"}

\* \s of Go's regexp: [\t\n\f\r ]
Space == {"\t", LF, "\f", CR, " "}

\* The literal device name of promptRegex.
HostName == <<"S", "G", "2", "2", "1", "0", "X", "M", "P", "-", "M", "2">>

\* The cue the script looks for with bytes.Contains.
PasswordCue == <<"P", "a", "s", "s", "w", "o", "r", "d", ":">>

----------------------------------------------------------------------------
(* ansiEscape = \x1b\[[0-9;]*[a-zA-Z] and ReplaceAll(..., "").             *)

\* Number of leading bytes of s, from index i on, that are in [0-9;].
RECURSIVE ParamRun(_, _)
ParamRun(s, i) ==
    IF i <= Len(s) /\ s[i] \in EscParams THEN 1 + ParamRun(s, i + 1) ELSE 0

\* Length of the match of ansiEscape that starts at the head of s (0: none).
\* The parameter run is greedy, and unambiguous: no letter is a parameter.
EscLen(s) ==
    IF Len(s) >= 3 /\ s[1] = ESC /\ s[2] = "["
    THEN LET k == ParamRun(s, 3)
         IN  IF 3 + k <= Len(s) /\ s[3 + k] \in Letters THEN 3 + k ELSE 0
    ELSE 0

\* A mutant of ansiEscape: the parameter bytes are not part of the match.
EscLenNoParams(s) ==
    IF Len(s) >= 3 /\ s[1] = ESC /\ s[2] = "[" /\ s[3] \in Letters THEN 3 ELSE 0

\* ansiEscape.ReplaceAll(s, ""): leftmost, non-overlapping, a single pass.
RECURSIVE StripAnsi(_)
StripAnsi(s) ==
    IF s = <<>> THEN <<>>
    ELSE LET n == EscLen(s)
         IN  IF n > 0 THEN StripAnsi(SubSeq(s, n + 1, Len(s)))
             ELSE <<Head(s)>> \o StripAnsi(Tail(s))

\* strings.ReplaceAll(s, "\r", "")
StripCR(s) == SelectSeq(s, LAMBDA c : c # CR)

\* The text RunCommand hands back: escapes stripped, then carriage returns.
Normalize(s) == StripCR(StripAnsi(s))

\* Some match of ansiEscape lies in s.
HasEscape(s) == \E i \in 1..Len(s) : EscLen(SubSeq(s, i, Len(s))) > 0

\* bytes.Contains(s, sub)
Contains(s, sub) ==
    \E i \in 1..(Len(s) - Len(sub) + 1) : SubSeq(s, i, i + Len(sub) - 1) = sub

----------------------------------------------------------------------------
(* promptRegex = (?m)[\r\n]*(SG2210XMP-M2(-N\d+)?(\([^)]*\))?[>#])\s*$     *)

\* The device name stands at index i of s.
HostAt(s, i) ==
    /\ i + Len(HostName) - 1 <= Len(s)
    /\ SubSeq(s, i, i + Len(HostName) - 1) = HostName

\* Indexes at which the match may go on after the optional (-N\d+) at p.
AfterUnit(s, p) ==
    {p} \cup
    {q \in (p + 3)..(Len(s) + 1) :
        /\ s[p] = "-"
        /\ s[p + 1] = "N"
        /\ \A k \in (p + 2)..(q - 1) : s[k] \in Digits}

\* Indexes after the optional parenthesised mode at q; minBody is 0 for
\* \([^)]*\) and 1 for \([^)]+\).
AfterMode(s, q, minBody) ==
    {q} \cup
    {r + 1 : r \in {r \in (q + 1 + minBody)..Len(s) :
                      /\ s[q] = "("
                      /\ s[r] = ")"
                      /\ \A k \in (q + 1)..(r - 1) : s[k] # ")"}}

\* \s*$ from index t on: in multi-line mode $ holds at the end of the text
\* and before every line feed.
TailOK(s, t) ==
    \E e \in t..(Len(s) + 1) :
        /\ \A k \in t..(e - 1) : s[k] \in Space
        /\ (e = Len(s) + 1 \/ s[e] = LF)

\* Some match of the prompt expression lies in s (Match is unanchored; the
\* leading [\r\n]* may be empty).
PromptMatchWith(s, minBody) ==
    \E i \in 1..Len(s) :
        /\ HostAt(s, i)
        /\ \E q \in AfterUnit(s, i + Len(HostName)) :
           \E r \in AfterMode(s, q, minBody) :
              /\ r <= Len(s)
              /\ s[r] \in {">", "#"}
              /\ TailOK(s, r + 1)

\* promptRegex.Match of package client.
PromptMatch(s) == PromptMatchWith(s, 0)

----------------------------------------------------------------------------
(* State.                                                                  *)

VARIABLES
    conn,       \* Client.conn: id of the ssh connection held, 0 for nil
    session,    \* Client.session: id of the ssh session held, 0 for nil
    stdin,      \* Client.stdin: id of the session whose stdin pipe is held
    stdout,     \* Client.stdout: id of the session whose stdout pipe is held
    outBuf,     \* Client.outBuf (the script's fullOutput)
    tmp,        \* waitForPrompt's local tmp: bytes of the running read cycle
    timeout,    \* the cycle's time.After(5s) channel has fired
    ctxDone,    \* the call's ctx.Done() is closed
    pc,         \* "idle", "select" (at the select), "read" (inside Read),
                \* "panic"
    op,         \* the call in flight or last made: "none", "connect", "run",
                \* "close"
    ret,        \* what the last call returned
    hist,       \* the calls that returned, oldest first: <<op, err = nil>>
    connState,  \* per connection ever dialled: "open" or "closed"
    sessState,  \* per session ever created: "new", "shell" or "closed"
    sessConn,   \* per session: the connection it runs on
    pipe,       \* bytes the device has sent that Read has not yet returned
    eof,        \* the device has ended the stream
    broken,     \* the transport has failed
    stdinLog,   \* what reached the transport through stdin, oldest first
    credSent,   \* credentials written during the running read cycle
    delivered,  \* segments the device has sent so far
    step        \* the script's main: 0 not started, k its k-th read cycle,
                \* ScriptDone finished

vars == <<conn, session, stdin, stdout, outBuf, tmp, timeout, ctxDone, pc, op,
          ret, hist, connState, sessState, sessConn, pipe, eof, broken,
          stdinLog, credSent, delivered, step>>

\* What the device may put on the wire in one piece.
PromptLine == HostName \o <<">">>

Segments ==
    { PromptLine,
      PasswordCue,
      <<ESC, "[">>,
      <<"0", "m">>,
      <<ESC, CR, "[", "m">> }

\* The command the host runs: the first of cmd/tplink-cli's sequence.
Commands == {"enable"}

NoRet == [op |-> "none", err |-> "nil", out |-> <<>>]

Init ==
    /\ conn = 0
    /\ session = 0
    /\ stdin = 0
    /\ stdout = 0
    /\ outBuf = <<>>
    /\ tmp = <<>>
    /\ timeout = FALSE
    /\ ctxDone = FALSE
    /\ pc = "idle"
    /\ op = "none"
    /\ ret = NoRet
    /\ hist = <<>>
    /\ connState = <<>>
    /\ sessState = <<>>
    /\ sessConn = <<>>
    /\ pipe = <<>>
    /\ eof = FALSE
    /\ broken = FALSE
    /\ stdinLog = <<>>
    /\ credSent = 0
    /\ delivered = 0
    /\ step = 0

----------------------------------------------------------------------------
(* The transport, the device and the clocks (external collaborators).      *)

\* A write through the stdin pipe reaches the transport.
WriteOK ==
    /\ stdin # 0
    /\ sessState[stdin] # "closed"
    /\ connState[sessConn[stdin]] = "open"
    /\ ~broken

\* The stream behind stdout has ended: by the device, or by a local close.
StreamEnded ==
    \/ eof
    \/ sessState[stdout] = "closed"
    \/ connState[sessConn[stdout]] = "closed"

\* The device sends one segment, in answer to what the call in flight wrote.
Deliver(seg) ==
    /\ delivered < MaxDeliver
    /\ pc \in {"select", "read"}
    /\ stdout # 0
    /\ sessState[stdout] = "shell"
    /\ ~StreamEnded
    /\ ~broken
    /\ pipe' = pipe \o seg
    /\ delivered' = delivered + 1
    /\ UNCHANGED <<conn, session, stdin, stdout, outBuf, tmp, timeout, ctxDone,
                   pc, op, ret, hist, connState, sessState, sessConn, eof,
                   broken, stdinLog, credSent, step>>

\* The device ends the stream. Only a Read with nothing pending observes it,
\* so it is taken at that moment.
DeviceEOF ==
    /\ pc = "read"
    /\ pipe = <<>>
    /\ ~StreamEnded
    /\ ~broken
    /\ eof' = TRUE
    /\ UNCHANGED <<conn, session, stdin, stdout, outBuf, tmp, timeout, ctxDone,
                   pc, op, ret, hist, connState, sessState, sessConn, pipe,
                   broken, stdinLog, credSent, delivered, step>>

\* The transport fails (reset, keep-alive loss); taken when a Read with
\* nothing pending observes it.
TransportBreak ==
    /\ pc = "read"
    /\ pipe = <<>>
    /\ ~StreamEnded
    /\ ~broken
    /\ broken' = TRUE
    /\ UNCHANGED <<conn, session, stdin, stdout, outBuf, tmp, timeout, ctxDone,
                   pc, op, ret, hist, connState, sessState, sessConn, pipe,
                   eof, stdinLog, credSent, delivered, step>>

\* The caller's context is cancelled or reaches its deadline during a call.
CtxCancel ==
    /\ pc \in {"select", "read"}
    /\ op \in {"connect", "run"}
    /\ ~ctxDone
    /\ ~timeout
    /\ ctxDone' = TRUE
    /\ UNCHANGED <<conn, session, stdin, stdout, outBuf, tmp, timeout, pc, op,
                   ret, hist, connState, sessState, sessConn, pipe, eof,
                   broken, stdinLog, credSent, delivered, step>>

\* The read cycle's five-second timer fires. (Of the two signals the model
\* takes the one that ends the cycle: with both ready the select picks either,
\* which is the choice of which one fires here.)
TimerFire ==
    /\ pc \in {"select", "read"}
    /\ ~timeout
    /\ ~ctxDone
    /\ timeout' = TRUE
    /\ UNCHANGED <<conn, session, stdin, stdout, outBuf, tmp, ctxDone, pc, op,
                   ret, hist, connState, sessState, sessConn, pipe, eof,
                   broken, stdinLog, credSent, delivered, step>>

----------------------------------------------------------------------------
(* package client: Connect, RunCommand, Close, waitForPrompt.              *)

\* How far Connect's set-up gets: the step that fails, or "ok".
\* "pipes" is StdinPipe or StdoutPipe, "shell" is RequestPty or Shell.
ConnectOutcomes == {"dial", "session", "pipes", "shell", "ok"}

\* The error a call returns when its read cycle is not reached or fails.
Errors == {"dial", "session", "pipes", "shell", "ctx", "timeout", "read"}

\* A call returns to the host; its context and its timer go out of scope.
Return(o, e, text) ==
    /\ pc' = "idle"
    /\ ret' = [op |-> o, err |-> e, out |-> text]
    /\ hist' = Append(hist, <<o, e = "nil">>)
    /\ ctxDone' = FALSE
    /\ timeout' = FALSE

\* RunCommand's return value for the read cycle's error e ("nil": none) and
\* the accumulated outBuf.
RunResultPartial(e, buf) == Normalize(buf)

RunResult(e, buf) == IF e = "nil" THEN Normalize(buf) ELSE <<>>

\* Client.outBuf after RunCommand: Reset() on the success path only.
RunOutBuf(e, buf) == IF e = "nil" THEN <<>> ELSE buf

\* waitForPrompt returns e to its caller, which returns to the host; buf is
\* Client.outBuf at that moment.
WaitReturn(e, buf) ==
    IF op = "connect"
    THEN /\ Return("connect", e, <<>>)
         /\ outBuf' = buf
    ELSE /\ Return("run", e, RunResult(e, buf))
         /\ outBuf' = RunOutBuf(e, buf)

\* A mutant of BeginCycle: tmp is kept from the cycle before.
BeginCycleKeepTmp ==
    /\ pc' = "select"
    /\ tmp' = tmp
    /\ timeout' = FALSE
    /\ credSent' = 0

\* waitForPrompt begins: fresh tmp, a fresh five-second timer.
BeginCycle ==
    /\ pc' = "select"
    /\ tmp' = <<>>
    /\ timeout' = FALSE
    /\ credSent' = 0

\* Connect up to its call of waitForPrompt. Each step may fail; the fields
\* assigned before the failing step stay assigned.
Connect ==
    /\ pc = "idle"
    /\ Len(hist) < MaxCalls
    /\ \E o \in ConnectOutcomes :
        LET newConn == Len(connState) + 1
            newSess == Len(sessState) + 1
            dialled == o # "dial"
            hasSess == o \notin {"dial", "session"}
            hasPipes == o \in {"shell", "ok"}
        IN  /\ op' = "connect"
            /\ conn' = IF dialled THEN newConn ELSE conn
            /\ connState' = IF dialled THEN Append(connState, "open")
                            ELSE connState
            /\ session' = IF hasSess THEN newSess ELSE session
            /\ sessState' = IF hasSess
                            THEN Append(sessState,
                                        IF o = "ok" THEN "shell" ELSE "new")
                            ELSE sessState
            /\ sessConn' = IF hasSess THEN Append(sessConn, newConn)
                           ELSE sessConn
            /\ stdin' = IF hasPipes THEN newSess ELSE stdin
            /\ stdout' = IF hasPipes THEN newSess ELSE stdout
            /\ pipe' = IF hasPipes THEN <<>> ELSE pipe
            /\ eof' = IF hasPipes THEN FALSE ELSE eof
            /\ broken' = IF dialled THEN FALSE ELSE broken
            /\ IF o = "ok"
               THEN /\ BeginCycle
                    /\ UNCHANGED <<ret, hist, ctxDone>>
               ELSE /\ Return("connect", o, <<>>)
                    /\ UNCHANGED <<tmp, credSent>>
    /\ UNCHANGED <<outBuf, stdinLog, delivered, step>>

\* RunCommand up to its call of waitForPrompt: fmt.Fprint(c.stdin, cmd+"\r\n")
\* with the write's error dropped. A nil stdin makes Fprint panic.
RunCommand(cmd) ==
    /\ pc = "idle"
    /\ Len(hist) < MaxCalls
    /\ op' = "run"
    /\ IF stdin = 0
       THEN /\ pc' = "panic"
            /\ UNCHANGED <<tmp, timeout, credSent, stdinLog>>
       ELSE /\ BeginCycle
            /\ stdinLog' = IF WriteOK
                           THEN Append(stdinLog, <<cmd, "\r\n">>)
                           ELSE stdinLog
    /\ UNCHANGED <<conn, session, stdin, stdout, outBuf, ctxDone, ret, hist,
                   connState, sessState, sessConn, pipe, eof, broken,
                   delivered, step>>

\* session.Close() and conn.Close() on whatever the two fields hold.
CloseStates ==
    /\ sessState' = IF session # 0
                    THEN [sessState EXCEPT ![session] = "closed"]
                    ELSE sessState
    /\ connState' = IF conn # 0
                    THEN [connState EXCEPT ![conn] = "closed"]
                    ELSE connState

\* A mutant of Close: no nil checks, so a nil field is dereferenced.
CloseNoNilCheck ==
    /\ pc = "idle"
    /\ Len(hist) < MaxCalls
    /\ op' = "close"
    /\ IF session = 0 \/ conn = 0
       THEN /\ pc' = "panic"
            /\ UNCHANGED <<ret, hist, sessState, connState, ctxDone, timeout>>
       ELSE /\ CloseStates
            /\ Return("close", "nil", <<>>)
    /\ UNCHANGED <<conn, session, stdin, stdout, outBuf, tmp, sessConn, pipe,
                   eof, broken, stdinLog, credSent, delivered, step>>

\* Close: neither call waits for the remote side.
Close ==
    /\ pc = "idle"
    /\ Len(hist) < MaxCalls
    /\ op' = "close"
    /\ CloseStates
    /\ Return("close", "nil", <<>>)
    /\ UNCHANGED <<conn, session, stdin, stdout, outBuf, tmp, sessConn, pipe,
                   eof, broken, stdinLog, credSent, delivered, step>>

\* select: case <-ctx.Done(): return ctx.Err()
SelectCtxDone ==
    /\ pc = "select"
    /\ op \in {"connect", "run"}
    /\ ctxDone
    /\ WaitReturn("ctx", outBuf)
    /\ UNCHANGED <<conn, session, stdin, stdout, tmp, op, connState, sessState,
                   sessConn, pipe, eof, broken, stdinLog, credSent, delivered,
                   step>>

\* A mutant of SelectTimeout: on the timeout the engine sends the command
\* again and waits once more.
SelectTimeoutRetry ==
    /\ pc = "select"
    /\ op \in {"connect", "run"}
    /\ timeout
    /\ Len(stdinLog) < MaxCalls
    /\ BeginCycle
    /\ stdinLog' = Append(stdinLog, <<"enable", "\r\n">>)
    /\ UNCHANGED <<conn, session, stdin, stdout, outBuf, ctxDone, op, ret, hist,
                   connState, sessState, sessConn, pipe, eof, broken, delivered,
                   step>>

\* A mutant of SelectTimeout: the timeout also shuts the session and the
\* connection down.
SelectTimeoutClosing ==
    /\ pc = "select"
    /\ op \in {"connect", "run"}
    /\ timeout
    /\ WaitReturn("timeout", outBuf)
    /\ CloseStates
    /\ UNCHANGED <<conn, session, stdin, stdout, tmp, op, sessConn, pipe, eof,
                   broken, stdinLog, credSent, delivered, step>>

\* select: case <-timeout: return fmt.Errorf("timeout waiting for prompt")
SelectTimeout ==
    /\ pc = "select"
    /\ op \in {"connect", "run"}
    /\ timeout
    /\ WaitReturn("timeout", outBuf)
    /\ UNCHANGED <<conn, session, stdin, stdout, tmp, op, connState, sessState,
                   sessConn, pipe, eof, broken, stdinLog, credSent, delivered,
                   step>>

\* select: default, taken only when no channel is ready: enter Read.
SelectDefault ==
    /\ pc = "select"
    /\ op \in {"connect", "run"}
    /\ ~ctxDone
    /\ ~timeout
    /\ pc' = "read"
    /\ UNCHANGED <<conn, session, stdin, stdout, outBuf, tmp, timeout, ctxDone,
                   op, ret, hist, connState, sessState, sessConn, pipe, eof,
                   broken, stdinLog, credSent, delivered, step>>

\* Read returns n > 0 bytes: all that is pending (the 4096-byte buffer is
\* never the limit here). They go to tmp and outBuf; the whole of tmp is
\* stripped and matched.
ReadChunk ==
    /\ pc = "read"
    /\ op \in {"connect", "run"}
    /\ pipe # <<>>
    /\ LET chunk == pipe
           ntmp == tmp \o chunk
           nbuf == outBuf \o chunk
           cleaned == StripAnsi(ntmp)
       IN  /\ pipe' = <<>>
           /\ tmp' = ntmp
           /\ IF PromptMatch(cleaned)
              THEN WaitReturn("nil", nbuf)
              ELSE /\ pc' = "select"
                   /\ outBuf' = nbuf
                   /\ UNCHANGED <<ret, hist, ctxDone, timeout>>
    /\ UNCHANGED <<conn, session, stdin, stdout, op, connState, sessState,
                   sessConn, eof, broken, stdinLog, credSent, delivered, step>>

\* A mutant of ReadEOF: the end of the stream is returned as an error.
ReadEOFAsError ==
    /\ pc = "read"
    /\ op \in {"connect", "run"}
    /\ pipe = <<>>
    /\ StreamEnded
    /\ WaitReturn("eof", outBuf)
    /\ UNCHANGED <<conn, session, stdin, stdout, tmp, op, connState, sessState,
                   sessConn, pipe, eof, broken, stdinLog, credSent, delivered,
                   step>>

\* Read returns 0, io.EOF: not an error for the loop, which goes round.
ReadEOF ==
    /\ pc = "read"
    /\ op \in {"connect", "run"}
    /\ pipe = <<>>
    /\ StreamEnded
    /\ pc' = "select"
    /\ UNCHANGED <<conn, session, stdin, stdout, outBuf, tmp, timeout, ctxDone,
                   op, ret, hist, connState, sessState, sessConn, pipe, eof,
                   broken, stdinLog, credSent, delivered, step>>

\* Read returns an error other than io.EOF: return err.
ReadError ==
    /\ pc = "read"
    /\ op \in {"connect", "run"}
    /\ pipe = <<>>
    /\ ~StreamEnded
    /\ broken
    /\ WaitReturn("read", outBuf)
    /\ UNCHANGED <<conn, session, stdin, stdout, tmp, op, connState, sessState,
                   sessConn, pipe, eof, broken, stdinLog, credSent, delivered,
                   step>>

\* The steps of package client's engine.
EngineStep ==
    \/ SelectCtxDone
    \/ SelectTimeout
    \/ SelectDefault
    \/ ReadChunk
    \/ ReadEOF
    \/ ReadError

\* The host's calls.
HostCall ==
    \/ Connect
    \/ \E cmd \in Commands : RunCommand(cmd)
    \/ Close

\* The environment: device, transport, clocks.
Environment ==
    \/ \E seg \in Segments : Deliver(seg)
    \/ DeviceEOF
    \/ TransportBreak
    \/ CtxCancel
    \/ TimerFire

Next ==
    \/ HostCall
    \/ EngineStep
    \/ Environment

Spec == Init /\ [][Next]_vars

----------------------------------------------------------------------------
(* The stand-alone script: its waitForPrompt and the sequence of main.     *)

\* promptRegex.Match of the script: the mode in parentheses is \([^)]+\).
ScriptPromptMatch(s) == PromptMatchWith(s, 1)

\* The commands main sends, in order.
ScriptCommands ==
    <<"enable", "config", "no clipaging", "exit",
      "show power inline information interface", "exit", "exit">>

\* main is past its last send.
ScriptDone == Len(ScriptCommands) + 2

\* main up to its first waitForPrompt. A failing step returns from main, and
\* the deferred Close calls run.
ScriptStart ==
    /\ step = 0
    /\ pc = "idle"
    /\ op' = "script"
    /\ \E o \in ConnectOutcomes :
        LET dialled == o # "dial"
            hasSess == o \notin {"dial", "session"}
        IN  /\ conn' = IF dialled THEN 1 ELSE 0
            /\ connState' = IF ~dialled THEN <<>>
                            ELSE IF o = "ok" THEN <<"open">> ELSE <<"closed">>
            /\ session' = IF hasSess THEN 1 ELSE 0
            /\ sessState' = IF ~hasSess THEN <<>>
                            ELSE IF o = "ok" THEN <<"shell">> ELSE <<"closed">>
            /\ sessConn' = IF hasSess THEN <<1>> ELSE <<>>
            /\ stdin' = IF o \in {"shell", "ok"} THEN 1 ELSE 0
            /\ stdout' = IF o \in {"shell", "ok"} THEN 1 ELSE 0
            /\ IF o = "ok"
               THEN /\ step' = 1
                    /\ BeginCycle
                    /\ ret' = ret
               ELSE /\ step' = ScriptDone
                    /\ pc' = "idle"
                    /\ ret' = [op |-> "script", err |-> o, out |-> <<>>]
                    /\ UNCHANGED <<tmp, timeout, credSent>>
    /\ UNCHANGED <<outBuf, ctxDone, hist, pipe, eof, broken, stdinLog,
                   delivered>>

\* waitForPrompt returns (it has no result) and main goes on: the next send
\* and its waitForPrompt, or, after the last one, the final clean-up of
\* fullOutput, whose text is printed, and the deferred Close calls. buf is
\* fullOutput and log is what stdin has carried at that moment.
ScriptAdvance(buf, log) ==
    /\ outBuf' = buf
    /\ IF step <= Len(ScriptCommands)
       THEN /\ step' = step + 1
            /\ stdinLog' = IF WriteOK
                           THEN Append(log, <<ScriptCommands[step], "\r\n">>)
                           ELSE log
            /\ BeginCycle
            /\ UNCHANGED <<ret, sessState, connState>>
       ELSE /\ step' = ScriptDone
            /\ stdinLog' = log
            /\ pc' = "idle"
            /\ ret' = [op |-> "script", err |-> "nil", out |-> Normalize(buf)]
            /\ timeout' = FALSE
            /\ CloseStates
            /\ UNCHANGED <<tmp, credSent>>

\* select: case <-timeout: log the partial text and return.
ScriptSelectTimeout ==
    /\ pc = "select"
    /\ op = "script"
    /\ timeout
    /\ ScriptAdvance(outBuf, stdinLog)
    /\ UNCHANGED <<conn, session, stdin, stdout, ctxDone, op, hist, sessConn,
                   pipe, eof, broken, delivered>>

\* select: default: enter Read.
ScriptSelectDefault ==
    /\ pc = "select"
    /\ op = "script"
    /\ ~timeout
    /\ pc' = "read"
    /\ UNCHANGED <<conn, session, stdin, stdout, outBuf, tmp, timeout, ctxDone,
                   op, ret, hist, connState, sessState, sessConn, pipe, eof,
                   broken, stdinLog, credSent, delivered, step>>

\* What the chunk handler does once tmp has grown to ntmp: "password" (the
\* cue is in the cleaned text: send the password, empty tmp, go round),
\* "prompt" (return) or "more" (go round).
ScriptVerdictPromptFirst(ntmp) ==
    IF ScriptPromptMatch(StripAnsi(ntmp)) THEN "prompt"
    ELSE IF Contains(StripAnsi(ntmp), PasswordCue) THEN "password"
    ELSE "more"

ScriptVerdict(ntmp) ==
    IF Contains(StripAnsi(ntmp), PasswordCue) THEN "password"
    ELSE IF ScriptPromptMatch(StripAnsi(ntmp)) THEN "prompt"
    ELSE "more"

\* Read returns n > 0 bytes.
ScriptReadChunk ==
    /\ pc = "read"
    /\ op = "script"
    /\ pipe # <<>>
    /\ LET chunk == pipe
           ntmp == tmp \o chunk
           nbuf == outBuf \o chunk
           verdict == ScriptVerdict(ntmp)
       IN  /\ pipe' = <<>>
           /\ CASE verdict = "password" ->
                    /\ stdinLog' = IF WriteOK
                                   THEN Append(stdinLog, <<"password", "\n">>)
                                   ELSE stdinLog
                    /\ credSent' = credSent + 1
                    /\ tmp' = <<>>
                    /\ pc' = "select"
                    /\ outBuf' = nbuf
                    /\ UNCHANGED <<ret, timeout, step, sessState, connState>>
                [] verdict = "prompt" ->
                    /\ ScriptAdvance(nbuf, stdinLog)
                [] OTHER ->
                    /\ tmp' = ntmp
                    /\ pc' = "select"
                    /\ outBuf' = nbuf
                    /\ UNCHANGED <<ret, timeout, step, sessState, connState,
                                   stdinLog, credSent>>
    /\ UNCHANGED <<conn, session, stdin, stdout, ctxDone, op, hist, sessConn,
                   eof, broken, delivered>>

\* Read returns 0, io.EOF: go round.
ScriptReadEOF ==
    /\ pc = "read"
    /\ op = "script"
    /\ pipe = <<>>
    /\ StreamEnded
    /\ pc' = "select"
    /\ UNCHANGED <<conn, session, stdin, stdout, outBuf, tmp, timeout, ctxDone,
                   op, ret, hist, connState, sessState, sessConn, pipe, eof,
                   broken, stdinLog, credSent, delivered, step>>

\* Read returns another error: log it and return.
ScriptReadError ==
    /\ pc = "read"
    /\ op = "script"
    /\ pipe = <<>>
    /\ ~StreamEnded
    /\ broken
    /\ ScriptAdvance(outBuf, stdinLog)
    /\ UNCHANGED <<conn, session, stdin, stdout, ctxDone, op, hist, sessConn,
                   pipe, eof, broken, delivered>>

ScriptStep ==
    \/ ScriptStart
    \/ ScriptSelectTimeout
    \/ ScriptSelectDefault
    \/ ScriptReadChunk
    \/ ScriptReadEOF
    \/ ScriptReadError

ScriptEnvironment ==
    \/ \E seg \in Segments : Deliver(seg)
    \/ DeviceEOF
    \/ TransportBreak
    \/ TimerFire

ScriptNext ==
    \/ ScriptStep
    \/ ScriptEnvironment

ScriptSpec == Init /\ [][ScriptNext]_vars

----------------------------------------------------------------------------
(* Scheduling: the goroutine that runs a call keeps running, and time      *)
(* passes. Nothing obliges the device to send anything.                    *)

LiveSpec == Spec /\ WF_vars(EngineStep) /\ WF_vars(TimerFire)

----------------------------------------------------------------------------
(* Properties.                                                             *)

\* A read cycle of package client is running.
InCycle == pc \in {"select", "read"} /\ op \in {"connect", "run"}

\* The last call was RunCommand and it has returned.
RunReturned == pc = "idle" /\ ret.op = "run"

\* The bytes of s.
Bytes(s) == {s[i] : i \in 1..Len(s)}

\* C1: in one read cycle the credential is written to the transport at most
\* once, however often and in whatever chunks the cue "Password:" arrives.
\* (The script's loop has no sent-flag: it answers every chunk that completes
\* a cue.)
C1_CredentialAtMostOnce == credSent <= 1

\* C2: whenever the loop is back at its select and the cleaned buffer of the
\* cycle contains the cue "Password:", the credential has been written in
\* this cycle. (Client.waitForPrompt never writes it.)
C2_CueAnswered ==
    (InCycle /\ pc = "select" /\ Contains(StripAnsi(tmp), PasswordCue))
        => credSent >= 1

\* C3: every read cycle ends: against a transport that delivers nothing more
\* it returns (with the timeout error) once the timer has fired.
C3_CycleEnds == InCycle ~> (pc = "idle")

\* C4: a deadline that is done while the cycle waits inside Read unblocks it:
\* the engine has a step to take without a further byte from the device.
C4_CancelUnblocksRead ==
    (InCycle /\ pc = "read" /\ (ctxDone \/ timeout)) => ENABLED EngineStep

\* C5: the text a successful RunCommand returns is the normalized bytes of
\* its own read cycle and nothing else.
C5_OutputOwnCycle ==
    (RunReturned /\ ret.err = "nil") => ret.out = Normalize(tmp)

\* C6: RunCommand returns either a text with no error, and then the prompt
\* was matched in its cycle and the whole accumulator was handed over, or an
\* error with the empty text; never an error together with partial text.
C6_NoPartialSuccess ==
    RunReturned =>
        \/ /\ ret.err = "nil"
           /\ PromptMatch(StripAnsi(tmp))
           /\ outBuf = <<>>
        \/ /\ ret.err \in {"ctx", "timeout", "read"}
           /\ ret.out = <<>>

\* A run failed after bytes had been accumulated.
C6_Witness ==
    /\ RunReturned
    /\ ret.err \in {"ctx", "timeout", "read"}
    /\ tmp # <<>>
    /\ outBuf # <<>>

\* C7: the text RunCommand returns holds no carriage return and no escape
\* sequence ESC [ <parameters> <letter>.
C7_OutputNormalized ==
    RunReturned => (CR \notin Bytes(ret.out) /\ ~HasEscape(ret.out))

\* C8: a Close call completes in whatever state it is made: it is never
\* pending and never faults.
C8_CloseSafe ==
    op = "close" => (pc = "idle" /\ ret.op = "close" /\ ret.err = "nil")

\* Close was called twice after a Connect that failed when creating the
\* session, so with Client.session nil.
C8_Witness ==
    /\ pc = "idle"
    /\ hist = <<<<"connect", FALSE>>, <<"close", TRUE>>, <<"close", TRUE>>>>
    /\ session = 0
    /\ conn # 0

\* C9: once Close has returned, every connection and every session the
\* object opened is released.
C9_AllReleased ==
    (pc = "idle" /\ op = "close") =>
        /\ \A i \in DOMAIN connState : connState[i] = "closed"
        /\ \A j \in DOMAIN sessState :
              sessState[j] = "closed" \/ connState[sessConn[j]] = "closed"

\* C10: Connect returns success only after its read cycle matched the prompt,
\* and a command reaches the transport only after some Connect returned
\* success.
C10_ReadyBeforeRun ==
    /\ (pc = "idle" /\ ret.op = "connect" /\ ret.err = "nil")
          => PromptMatch(StripAnsi(tmp))
    /\ stdinLog # <<>>
          => \E i \in DOMAIN hist : hist[i] = <<"connect", TRUE>>

\* C11: RunCommand goes on to its read cycle only when the write of the
\* command reached the transport; a failed write ends the call.
C11_WriteFailureStopsRun ==
    [][(pc = "idle" /\ op' = "run" /\ pc' = "select") => WriteOK]_vars

----------------------------------------------------------------------------
(* The prompt matcher on its own: the three lines of waitForPrompt that    *)
(* grow tmp, strip it and match it, applied to buffers built from bytes    *)
(* that the engine's device does not send.                                 *)

\* Pieces a buffer is built from.
MaxFeed == 5

MatcherSegments ==
    { <<ESC, "[">>, <<"0">>, <<"m">>, <<CR>>, <<LF>>, <<"x">>,
      HostName, <<">">> }

\* tmp = append(tmp, chunk...); cleaned := ansiEscape.ReplaceAll(tmp, "");
\* promptRegex.Match(cleaned). ret.out holds cleaned, ret.err the verdict.
MatcherFeed(seg) ==
    /\ step = 0
    /\ op \in {"none", "match", "restrip"}
    /\ delivered < MaxFeed
    /\ delivered' = delivered + 1
    /\ op' = "match"
    /\ tmp' = tmp \o seg
    /\ ret' = [op |-> "match",
               err |-> IF PromptMatch(StripAnsi(tmp \o seg))
                       THEN "nil" ELSE "nomatch",
               out |-> StripAnsi(tmp \o seg)]
    /\ UNCHANGED <<conn, session, stdin, stdout, outBuf, timeout, ctxDone, pc,
                   hist, connState, sessState, sessConn, pipe, eof, broken,
                   stdinLog, credSent, step>>

\* The normalization applied to the text it produced: outBuf holds the
\* result.
MatcherRestrip ==
    /\ op = "match"
    /\ op' = "restrip"
    /\ outBuf' = StripAnsi(ret.out)
    /\ UNCHANGED <<conn, session, stdin, stdout, tmp, timeout, ctxDone, pc,
                   ret, hist, connState, sessState, sessConn, pipe, eof,
                   broken, stdinLog, credSent, delivered, step>>

MatcherNext ==
    \/ \E seg \in MatcherSegments : MatcherFeed(seg)
    \/ MatcherRestrip

MatcherSpec == Init /\ [][MatcherNext]_vars

\* C12: stripping the escape sequences of an already stripped buffer changes
\* nothing.
C12_StripIdempotent == op = "restrip" => outBuf = ret.out

\* The length of the shortest prefix of s whose stripped text matches the
\* prompt (0: none): where a cycle fed s one byte at a time would return.
FirstMatch(s) ==
    LET hits == {k \in 1..Len(s) : PromptMatch(StripAnsi(SubSeq(s, 1, k)))}
    IN  IF hits = {} THEN 0 ELSE CHOOSE k \in hits : \A j \in hits : k <= j

\* C13: the outcome of a read cycle does not depend on where the chunk
\* boundaries fall. Fed one byte at a time the cycle returns at the first
\* matching prefix, so, whatever the chunks: a cycle that is still running has
\* received no matching prefix, and a cycle that returned success received
\* just its first matching prefix.
C13_ChunkInvariance ==
    /\ (InCycle /\ pc = "select") => FirstMatch(tmp) = 0
    /\ (pc = "idle" /\ ret.op \in {"connect", "run"} /\ ret.err = "nil")
          => FirstMatch(tmp) = Len(tmp)

\* The read cycle of the script is at a failure: the timer has fired at the
\* select, or the read has met an error other than the end of the stream.
ScriptCycleFails ==
    /\ op = "script"
    /\ step \in 1..(ScriptDone - 1)
    /\ \/ pc = "select" /\ timeout
       \/ pc = "read" /\ pipe = <<>> /\ ~StreamEnded /\ broken

\* C14: a fatal error of a step of the host's command sequence (a timeout or
\* a read error of its read cycle) ends the sequence: the host's next step
\* writes nothing more to the transport and ends the sequence with an error,
\* so no later command is sent and no output is parsed.
C14_FatalErrorAborts ==
    [][(ScriptCycleFails /\ (pc' # pc \/ step' # step))
        => (stdinLog' = stdinLog /\ step' = ScriptDone /\ ret'.err # "nil")]_vars

----------------------------------------------------------------------------
(* parser.ParsePoETable: the power table, read from the text of            *)
(* "show power inline information interface".                              *)

\* Lines of input text in one behaviour.
MaxLines == 3

VT == "VT"
\* unicode.IsSpace on the bytes of the model: what TrimSpace and Fields cut.
WhiteSpace == Space \cup {VT}

\* strings.Split(s, "\n")
RECURSIVE SplitLines(_)
SplitLines(s) ==
    LET cuts == {i \in 1..Len(s) : s[i] = LF}
    IN  IF cuts = {} THEN <<s>>
        ELSE LET i == CHOOSE c \in cuts : \A d \in cuts : c <= d
             IN  <<SubSeq(s, 1, i - 1)>> \o SplitLines(SubSeq(s, i + 1, Len(s)))

\* strings.TrimSpace
TrimSpace(s) ==
    LET ink == {i \in 1..Len(s) : s[i] \notin WhiteSpace}
    IN  IF ink = {} THEN <<>>
        ELSE SubSeq(s, CHOOSE a \in ink : \A b \in ink : a <= b,
                       CHOOSE a \in ink : \A b \in ink : a >= b)

\* strings.HasPrefix
HasPrefix(s, p) == Len(s) >= Len(p) /\ SubSeq(s, 1, Len(p)) = p

\* strings.Fields: the maximal runs of non-space bytes, in order.
RECURSIVE Fields(_)
Fields(s) ==
    LET ink == {i \in 1..Len(s) : s[i] \notin WhiteSpace}
    IN  IF ink = {} THEN <<>>
        ELSE LET a == CHOOSE x \in ink : \A y \in ink : x <= y
                 gaps == {i \in a..Len(s) : s[i] \in WhiteSpace}
                 b == IF gaps = {} THEN Len(s) + 1
                      ELSE CHOOSE x \in gaps : \A y \in gaps : x <= y
             IN  <<SubSeq(s, a, b - 1)>> \o Fields(SubSeq(s, b, Len(s)))

\* strings.Join(fs, " ")
RECURSIVE Join(_)
Join(fs) ==
    IF fs = <<>> THEN <<>>
    ELSE IF Len(fs) = 1 THEN fs[1]
    ELSE fs[1] \o <<" ">> \o Join(Tail(fs))

DigitVal(c) ==
    CASE c = "0" -> 0 [] c = "1" -> 1 [] c = "2" -> 2 [] c = "3" -> 3
      [] c = "4" -> 4 [] c = "5" -> 5 [] c = "6" -> 6 [] c = "7" -> 7
      [] c = "8" -> 8 [] c = "9" -> 9

AllDigits(s) == \A i \in 1..Len(s) : s[i] \in Digits

\* The value of a run of decimal digits.
RECURSIVE DecVal(_)
DecVal(s) ==
    IF s = <<>> THEN 0
    ELSE 10 * DecVal(SubSeq(s, 1, Len(s) - 1)) + DigitVal(s[Len(s)])

Unsigned(s) == IF s # <<>> /\ s[1] \in {"+", "-"} THEN Tail(s) ELSE s
Sign(s) == IF s # <<>> /\ s[1] = "-" THEN -1 ELSE 1

\* strconv.Atoi succeeds: an optional sign and one or more decimal digits.
AtoiOK(s) == Unsigned(s) # <<>> /\ AllDigits(Unsigned(s))
Atoi(s) == Sign(s) * DecVal(Unsigned(s))

NaNText == <<"N", "a", "N">>

\* strconv.ParseFloat succeeds, on texts of digits, sign, point and letters:
\* an optional sign, then digits with at most one point and at least one
\* digit, or the special value NaN.
ParseFloatOK(s) ==
    LET u == Unsigned(s)
        dots == {i \in 1..Len(u) : u[i] = "."}
    IN  \/ u = NaNText
        \/ /\ Cardinality(dots) <= 1
           /\ \E i \in 1..Len(u) : u[i] \in Digits
           /\ \A i \in 1..Len(u) : u[i] \in Digits \cup {"."}

\* A float as <<m, e>>, the number m / 10^e with no trailing zero in the
\* fraction; NaN is <<0, -1>>.
RECURSIVE Reduce(_, _)
Reduce(m, e) ==
    IF e > 0 /\ m % 10 = 0 THEN Reduce(m \div 10, e - 1) ELSE <<m, e>>

ParseFloat(s) ==
    LET u == Unsigned(s)
        dots == {i \in 1..Len(u) : u[i] = "."}
        d == IF dots = {} THEN Len(u) + 1 ELSE CHOOSE i \in dots : TRUE
        int == SubSeq(u, 1, d - 1)
        frac == SubSeq(u, d + 1, Len(u))
    IN  IF u = NaNText THEN <<0, -1>>
        ELSE Reduce(Sign(s) * DecVal(int \o frac), Len(frac))

NoPorts == <<>>

\* ports[iface] = PoEPort{...}, keeping the row already stored for the key.
PutPortFirstWins(ports, iface, port) ==
    [k \in DOMAIN ports \cup {iface} |->
        IF k \in DOMAIN ports THEN ports[k] ELSE port]

\* ports[iface] = PoEPort{...}
PutPort(ports, iface, port) ==
    [k \in DOMAIN ports \cup {iface} |-> IF k = iface THEN port ELSE ports[k]]

\* The loop over lines[i..], with the map built so far.
RECURSIVE ParseFrom(_, _, _)
ParseFrom(lines, i, ports) ==
    IF i > Len(lines) THEN [err |-> "nil", out |-> ports]
    ELSE LET line == TrimSpace(lines[i])
             fields == Fields(line)
         IN  IF ~HasPrefix(line, <<"T", "w">>) \/ Len(fields) < 6
             THEN ParseFrom(lines, i + 1, ports)
             ELSE IF ~ParseFloatOK(fields[2]) \/ ~AtoiOK(fields[3])
                     \/ ~ParseFloatOK(fields[4])
             THEN [err |-> "parse", out |-> NoPorts]
             ELSE ParseFrom(lines, i + 1,
                    PutPort(ports, fields[1],
                        [PowerWatts |-> ParseFloat(fields[2]),
                         CurrentMA |-> Atoi(fields[3]),
                         VoltageV |-> ParseFloat(fields[4]),
                         PDClass |-> Join(SubSeq(fields, 5, Len(fields) - 1)),
                         Status |-> fields[Len(fields)]]))

ParsePoETable(output) == ParseFrom(SplitLines(output), 1, NoPorts)

Tw1 == <<"T", "w", "1">>
Tw2 == <<"T", "w", "2">>
Class4 == <<"C", "l", "a", "s", "s", "4">>
StatusOn == <<"O", "N">>
StatusOff == <<"O", "F", "F">>

\* The lines the device output is made of: good rows of six and seven fields,
\* rows with an unparsable power, current or voltage, short rows, a row that
\* does not start with "Tw", blank and padded lines.
TableLines ==
    { Join(<<Tw1, <<"4", ".", "2">>, <<"8", "4">>, <<"5", "2", ".", "0">>,
             Class4, StatusOn>>),
      Join(<<Tw1, <<"4", ".", "2">>, <<"8", "4">>, <<"5", "2", ".", "0">>,
             <<"C", "l", "a", "s", "s">>, <<"4">>, StatusOff>>),
      Join(<<Tw2, <<"0">>, <<"0">>, <<"0">>, <<"N", "/", "A">>, StatusOff>>),
      <<" ", " ">> \o Join(<<Tw2, <<"4", ".", "2">>, <<"-", "1">>, <<".", "5">>,
             Class4, StatusOn>>) \o <<CR>>,
      Join(<<Tw1, <<"4", ".", "2">>, <<"\t", "8", "4">>, <<"5", "2">>,
             Class4, StatusOn>>),
      Join(<<Tw1, <<"x">>, <<"8", "4">>, <<"5", "2">>, Class4, StatusOn>>),
      Join(<<Tw1, <<"4", ".", "2">>, <<"8", ".", "4">>, <<"5", "2">>,
             Class4, StatusOn>>),
      Join(<<Tw1, <<"4", ".", "2">>, <<"8", "4">>, <<"5", ".", "2", ".">>,
             Class4, StatusOn>>),
      Join(<<Tw1, NaNText, <<"8", "4">>, <<"5", "2">>, Class4, StatusOn>>),
      Join(<<Tw1, <<"x">>, <<"8", "4">>, <<"5", "2">>, StatusOn>>),
      Tw1,
      Join(<<<<"x">>, Tw1, <<"4", ".", "2">>, <<"x">>, <<"5", "2">>,
             Class4, StatusOn>>),
      <<>> }

\* The device output grows by one line.
ParserInput(line) ==
    /\ step = 0
    /\ op \in {"none", "input"}
    /\ delivered < MaxLines
    /\ delivered' = delivered + 1
    /\ op' = "input"
    /\ outBuf' = IF delivered = 0 THEN line ELSE outBuf \o <<LF>> \o line
    /\ UNCHANGED <<conn, session, stdin, stdout, tmp, timeout, ctxDone, pc, ret,
                   hist, connState, sessState, sessConn, pipe, eof, broken,
                   stdinLog, credSent, step>>

\* ports, err := parser.ParsePoETable(out)
ParserCall ==
    /\ op = "input"
    /\ op' = "parse"
    /\ ret' = [op |-> "parse"] @@ ParsePoETable(outBuf)
    /\ UNCHANGED <<conn, session, stdin, stdout, outBuf, tmp, timeout, ctxDone,
                   pc, hist, connState, sessState, sessConn, pipe, eof, broken,
                   stdinLog, credSent, delivered, step>>

ParserNext ==
    \/ \E line \in TableLines : ParserInput(line)
    \/ ParserCall

ParserSpec == Init /\ [][ParserNext]_vars

\* A line of the table that is read as a row: it starts with "Tw" once
\* trimmed and has six fields or more.
EligibleRow(line) ==
    HasPrefix(TrimSpace(line), <<"T", "w">>) /\ Len(Fields(line)) >= 6

\* The power and voltage fields of the row read as floats and its current
\* field as an integer.
NumericRow(line) ==
    LET f == Fields(line)
    IN  ParseFloatOK(f[2]) /\ AtoiOK(f[3]) /\ ParseFloatOK(f[4])

\* C15: the power-table parser skips a "Tw" line of fewer than 6 fields
\* whatever it holds; fails the whole call, with no records, when a "Tw" line
\* of 6 fields or more has a power, current or voltage field that is not
\* numeric (does not read as a float, an integer, a float), whatever rows
\* stand before or after it; and otherwise returns one record per distinct
\* first field of the eligible rows, taken from the last such row: the last
\* field as status, fields 5..n-1 joined by blanks as class.
C15_PoETable ==
    op = "parse" =>
        LET lines == SplitLines(outBuf)
            rows == {i \in 1..Len(lines) : EligibleRow(lines[i])}
            LastOf(k) ==
                CHOOSE i \in rows :
                    /\ Fields(lines[i])[1] = k
                    /\ \A j \in rows : Fields(lines[j])[1] = k => j <= i
        IN  IF \E i \in rows : ~NumericRow(lines[i])
            THEN ret.err # "nil" /\ ret.out = NoPorts
            ELSE /\ ret.err = "nil"
                 /\ DOMAIN ret.out = {Fields(lines[i])[1] : i \in rows}
                 /\ \A k \in DOMAIN ret.out :
                        LET f == Fields(lines[LastOf(k)])
                        IN  /\ ret.out[k].Status = f[Len(f)]
                            /\ ret.out[k].PDClass = Join(SubSeq(f, 5, Len(f) - 1))
                            /\ ret.out[k].PowerWatts = ParseFloat(f[2])
                            /\ ret.out[k].CurrentMA = Atoi(f[3])
                            /\ ret.out[k].VoltageV = ParseFloat(f[4])

\* A call returned the record of the second of two rows for one port, after
\* skipping a short "Tw" line whose power field is not a number.
C15_Witness ==
    /\ op = "parse"
    /\ ret.err = "nil"
    /\ LET lines == SplitLines(outBuf)
           rows == {i \in 1..Len(lines) : EligibleRow(lines[i])}
       IN  /\ Cardinality(rows) = 2
           /\ Cardinality(DOMAIN ret.out) = 1
           /\ \E i, j \in rows :
                 /\ i < j
                 /\ Fields(lines[i])[6] # Fields(lines[j])[Len(Fields(lines[j]))]
                 /\ \A k \in DOMAIN ret.out :
                       ret.out[k].Status = Fields(lines[j])[Len(Fields(lines[j]))]
           /\ \E i \in 1..Len(lines) :
                 /\ HasPrefix(TrimSpace(lines[i]), <<"T", "w">>)
                 /\ Len(Fields(lines[i])) \in 2..5
                 /\ ~ParseFloatOK(Fields(lines[i])[2])

\* C16: once the credential has been interjected, what was received up to
\* then is dropped: the text the host finally gets does not contain the
\* credential prompt "Password:".
C16_CueNotInText ==
    (op = "script" /\ step = ScriptDone /\ ret.err = "nil" /\ credSent > 0)
        => ~Contains(ret.out, PasswordCue)

\* s ends with a complete prompt: the device name, the optional unit and
\* mode, '>' or '#', and nothing but white space up to the end of s.
EndsWithPrompt(s) ==
    \E i \in 1..Len(s) :
        /\ HostAt(s, i)
        /\ \E q \in AfterUnit(s, i + Len(HostName)) :
           \E r \in AfterMode(s, q, 0) :
              /\ r <= Len(s)
              /\ s[r] \in {">", "#"}
              /\ \A k \in (r + 1)..Len(s) : s[k] \in Space

\* C17: a match is reported only when the cleaned cumulative buffer ends,
\* apart from trailing white space, with a complete prompt: never on a part
\* of a prompt, never on a prompt line that further output follows.
C17_MatchAnchoredAtEnd ==
    (ret.op = "match" /\ ret.err = "nil") => EndsWithPrompt(ret.out)

\* C18: a read cycle that ends in failure (timeout, cancellation, read
\* error) closes nothing: the step that returns the failure leaves the
\* connection and the session the client holds, and their states, as they
\* were, and both fields still hold something for a later Close to shut down.
C18_FailureClosesNothing ==
    [][(InCycle /\ pc' = "idle" /\ ret'.err # "nil")
        => /\ conn' = conn /\ session' = session
           /\ connState' = connState /\ sessState' = sessState
           /\ conn' # 0 /\ session' # 0]_vars

\* A RunCommand has timed out and the session and connection are still open.
C18_Witness ==
    /\ pc = "idle"
    /\ ret.op = "run"
    /\ ret.err = "timeout"
    /\ session # 0 /\ sessState[session] = "shell"
    /\ conn # 0 /\ connState[conn] = "open"

\* The stream has ended and nothing is left to read: every Read of the
\* running cycle returns the end of the stream.
OnlyEOF == InCycle /\ StreamEnded /\ pipe = <<>>

C20_NoRetry ==
    [][/\ (pc = "idle" /\ pc' = "select" /\ op' = "run")
            => /\ \/ stdinLog' = stdinLog
                  \/ \E cmd \in Commands :
                        stdinLog' = Append(stdinLog, <<cmd, "\r\n">>)
               /\ WriteOK => stdinLog' # stdinLog
       /\ (InCycle /\ op = "run") => stdinLog' = stdinLog
       /\ (InCycle /\ op = "run" /\ pc' # "idle")
            => /\ pc' \in {"select", "read"}
               /\ Len(tmp') >= Len(tmp)
               /\ SubSeq(tmp', 1, Len(tmp)) = tmp
               /\ timeout => timeout'
       /\ (InCycle /\ op = "run" /\ pc = "select" /\ (timeout \/ ctxDone)
              /\ (pc' # pc \/ tmp' # tmp \/ stdinLog' # stdinLog))
            => (pc' = "idle" /\ ret'.err # "nil" /\ Len(hist') = Len(hist) + 1)
      ]_vars

\* A RunCommand wrote its command once, timed out and returned the failure.
C20_Witness ==
    /\ pc = "idle"
    /\ ret.op = "run"
    /\ ret.err = "timeout"
    /\ stdinLog = <<<<"enable", "\r\n">>>>
    /\ hist = <<<<"connect", TRUE>>, <<"run", FALSE>>>>

----------------------------------------------------------------------------
(* Two goroutines calling RunCommand on one connected Client. The Client   *)
(* struct has no lock, so nothing orders the calls. In this specification  *)
(* pc, op, tmp, timeout and ret are held per caller (tmp and the timer are *)
(* locals of waitForPrompt); stdin, stdout, outBuf and the stream are the  *)
(* one Client's.                                                           *)

Callers == {1, 2}

ConcSegments == {PromptLine, <<"0", "m">>}

\* Callers inside RunCommand.
InFlight == {c \in Callers : pc[c] # "idle"}

\* The Client after a successful Connect: the prompt that ended Connect's
\* read cycle is still in outBuf.
ConcInit ==
    /\ conn = 1
    /\ session = 1
    /\ stdin = 1
    /\ stdout = 1
    /\ outBuf = PromptLine
    /\ tmp = [c \in Callers |-> <<>>]
    /\ timeout = [c \in Callers |-> FALSE]
    /\ ctxDone = FALSE
    /\ pc = [c \in Callers |-> "idle"]
    /\ op = [c \in Callers |-> "none"]
    /\ ret = [c \in Callers |-> NoRet]
    /\ hist = <<<<"connect", TRUE>>>>
    /\ connState = <<"open">>
    /\ sessState = <<"shell">>
    /\ sessConn = <<1>>
    /\ pipe = <<>>
    /\ eof = FALSE
    /\ broken = FALSE
    /\ stdinLog = <<>>
    /\ credSent = 0
    /\ delivered = 0
    /\ step = 0

\* The device sends one segment while some call waits.
ConcDeliver(seg) ==
    /\ delivered < MaxDeliver
    /\ InFlight # {}
    /\ pipe' = pipe \o seg
    /\ delivered' = delivered + 1
    /\ UNCHANGED <<conn, session, stdin, stdout, outBuf, tmp, timeout, ctxDone,
                   pc, op, ret, hist, connState, sessState, sessConn, eof,
                   broken, stdinLog, credSent, step>>

\* The five-second timer of caller c's cycle fires.
ConcTimerFire(c) ==
    /\ pc[c] \in {"select", "read"}
    /\ ~timeout[c]
    /\ timeout' = [timeout EXCEPT ![c] = TRUE]
    /\ UNCHANGED <<conn, session, stdin, stdout, outBuf, tmp, ctxDone, pc, op,
                   ret, hist, connState, sessState, sessConn, pipe, eof,
                   broken, stdinLog, credSent, delivered, step>>

\* Caller c enters RunCommand: the write, then waitForPrompt begins. No
\* test of whether another call is in flight.
ConcRunCommand(c, cmd) ==
    /\ pc[c] = "idle"
    /\ Len(hist) + Cardinality(InFlight) < MaxCalls
    /\ op' = [op EXCEPT ![c] = "run"]
    /\ pc' = [pc EXCEPT ![c] = "select"]
    /\ tmp' = [tmp EXCEPT ![c] = <<>>]
    /\ timeout' = [timeout EXCEPT ![c] = FALSE]
    /\ stdinLog' = IF WriteOK THEN Append(stdinLog, <<cmd, "\r\n">>)
                   ELSE stdinLog
    /\ UNCHANGED <<conn, session, stdin, stdout, outBuf, ctxDone, ret, hist,
                   connState, sessState, sessConn, pipe, eof, broken, credSent,
                   delivered, step>>

\* Caller c's call returns e and text.
ConcReturn(c, e, text) ==
    /\ pc' = [pc EXCEPT ![c] = "idle"]
    /\ ret' = [ret EXCEPT ![c] = [op |-> "run", err |-> e, out |-> text]]
    /\ hist' = Append(hist, <<"run", e = "nil">>)
    /\ timeout' = [timeout EXCEPT ![c] = FALSE]

\* Some other caller is inside RunCommand while c is.
Overlap(c) == InFlight \ {c} # {}

\* outBuf after c's outBuf.Write(chunk). bytes.Buffer is not safe for
\* concurrent use: when the write may overlap another caller's access the
\* outcome is a data race, here any of: appended in order, lost to the other
\* write, or placed at a stale length k, over what the other caller appended.
WriteOutcomes(c, chunk) ==
    IF Overlap(c)
    THEN {outBuf \o chunk, outBuf}
            \cup {SubSeq(outBuf, 1, k) \o chunk : k \in 0..(Len(outBuf) - 1)}
    ELSE {outBuf \o chunk}

\* select: case <-timeout, in caller c.
ConcSelectTimeout(c) ==
    /\ pc[c] = "select"
    /\ timeout[c]
    /\ ConcReturn(c, "timeout", <<>>)
    /\ UNCHANGED <<conn, session, stdin, stdout, outBuf, tmp, ctxDone, op,
                   connState, sessState, sessConn, pipe, eof, broken, stdinLog,
                   credSent, delivered, step>>

\* select: default, in caller c: enter Read.
ConcSelectDefault(c) ==
    /\ pc[c] = "select"
    /\ ~timeout[c]
    /\ pc' = [pc EXCEPT ![c] = "read"]
    /\ UNCHANGED <<conn, session, stdin, stdout, outBuf, tmp, timeout, ctxDone,
                   op, ret, hist, connState, sessState, sessConn, pipe, eof,
                   broken, stdinLog, credSent, delivered, step>>

\* Caller c's Read returns what is pending, whichever call it answers; the
\* chunk goes to c's tmp and to the shared outBuf, and c's tmp is matched.
ConcReadChunk(c) ==
    /\ pc[c] = "read"
    /\ pipe # <<>>
    /\ LET chunk == pipe
           ntmp == tmp[c] \o chunk
       IN  /\ pipe' = <<>>
           /\ tmp' = [tmp EXCEPT ![c] = ntmp]
           /\ \E nbuf \in WriteOutcomes(c, chunk) :
                 IF PromptMatch(StripAnsi(ntmp))
                 THEN /\ ConcReturn(c, "nil", RunResult("nil", nbuf))
                      /\ outBuf' = RunOutBuf("nil", nbuf)
                 ELSE /\ pc' = [pc EXCEPT ![c] = "select"]
                      /\ outBuf' = nbuf
                      /\ UNCHANGED <<ret, hist, timeout>>
    /\ UNCHANGED <<conn, session, stdin, stdout, ctxDone, op, connState,
                   sessState, sessConn, eof, broken, stdinLog, credSent,
                   delivered, step>>

ConcNext ==
    \/ \E c \in Callers, cmd \in Commands : ConcRunCommand(c, cmd)
    \/ \E c \in Callers : ConcSelectTimeout(c)
    \/ \E c \in Callers : ConcSelectDefault(c)
    \/ \E c \in Callers : ConcReadChunk(c)
    \/ \E c \in Callers : ConcTimerFire(c)
    \/ \E seg \in ConcSegments : ConcDeliver(seg)

ConcSpec == ConcInit /\ [][ConcNext]_vars

\* C21: one run is in flight at a time on a session: while one call's read
\* cycle is outstanding no other call has written its command or is reading
\* the transport and appending to outBuf.
C21_OneRunInFlight == Cardinality(InFlight) <= 1

\* C22: prompt detection looks only at the bytes read in the running cycle.
\* A cycle starts with an empty tmp; tmp then grows only by what a Read of
\* this cycle returns; and success is reported only by a step that read new
\* bytes which complete a prompt in tmp, whatever an earlier cycle left in
\* outBuf.
C22_DetectsOwnBytes ==
    [][/\ (pc = "idle" /\ pc' = "select") => tmp' = <<>>
       /\ (InCycle /\ pc' # "idle") => (tmp' = tmp \/ tmp' = tmp \o pipe)
       /\ (InCycle /\ pc' = "idle" /\ ret'.err = "nil")
            => /\ pipe # <<>>
               /\ tmp' = tmp \o pipe
               /\ PromptMatch(StripAnsi(tmp'))
               /\ ~PromptMatch(StripAnsi(tmp))
      ]_vars

\* A RunCommand is still waiting, having read bytes without a prompt, while
\* outBuf holds the prompt that ended Connect.
C22_Witness ==
    /\ op = "run"
    /\ pc = "select"
    /\ tmp # <<>>
    /\ ~PromptMatch(StripAnsi(tmp))
    /\ Contains(outBuf, PromptLine)
    /\ ~Contains(tmp, PromptLine)

====
